---- MODULE Spec2Model ----
(***************************************************************************)
(* Model of ZZZ_Telegram_Bot_Prototype.py: the SQLite store (users, raids, *)
(* raid_participants), the cmd_*_logic command handlers executed one       *)
(* database statement at a time by a set of callers, and the reminder      *)
(* scheduler of spec section 4.3.                                          *)
(*                                                                         *)
(* Time is counted in ticks of 1/TicksPerSec second.                       *)
(***************************************************************************)
EXTENDS Integers, FiniteSets, Sequences, TLC

\* ------------------------------------------------------------------ bounds
NProcs == 2
NUsers == 2
MaxRaids == 1
MaxSlots == 2
MaxCalls == 3
MaxAdvances == 2
TicksPerSec == 2
MaxDrifts == 1

\* ------------------------------------------------------- program constants
DailyReward == 50
CooldownHours == 24

DefaultPollSeconds == 50
Threshold30 == 30
Threshold10 == 10

Hour == 3600 * TicksPerSec
Minute == 60 * TicksPerSec
Cooldown == CooldownHours * Hour
DefaultPoll == DefaultPollSeconds * TicksPerSec
Thresholds == {Threshold30, Threshold10}

Procs == 1 .. NProcs
TgIds == {10 + i : i \in 1 .. NUsers}
RaidIdArgs == 1 .. (MaxRaids + 1)
\* (boss, slots) as the transport layer hands them over: any string, any int
CreateArgs == {<<"Hydra", n>> : n \in 1 .. MaxSlots} \cup {<<"", 1>>, <<"Hydra", 0>>}
ClockSteps == {1, Cooldown - 1, Cooldown}
ConcClockSteps == {Cooldown}
\* message.from_user.username and the /linkuid argument
Nicks == {"neo"}
Uids == {"700100"}
\* OWNER_TG_ID: 0 when the variable is not set, else one account's id
OwnerIds == {0, 11}
\* the scheduler runs: start time of the raid, poll intervals, first tick
SchedStart == 45 * Minute
SchedHorizon == SchedStart + 5 * Minute
Polls == {DefaultPoll, 10 * Minute, 15 * Minute, 20 * Minute}
Phases == {0, 1, 30 * TicksPerSec, 5 * Minute}
Drifts == {1, 7 * TicksPerSec}
\* a sleep that outlasts a whole window, and a start time already gone by
Stalls == {25 * Minute}
PastStart == 0 - Minute

VARIABLES
  users,      \* table users: set of rows
  raids,      \* table raids: set of rows
  parts,      \* table raid_participants: set of rows
  now,        \* the wall clock, in ticks
  advances,   \* number of clock jumps taken so far
  calls,      \* number of command invocations started so far
  pc,         \* per caller: position inside the running cmd_*_logic
  args,       \* per caller: arguments of the running command
  loc,        \* per caller: the locals of the running command
  result,     \* per caller: what the last finished command returned
  entry,      \* per caller: the tables as they were when the command began
  fired,      \* ReminderFired: the (raid id, threshold) pairs already notified
  sent,       \* what was handed to the NotificationSink, one record per burst
  poll,       \* the scheduler's poll interval P, in ticks
  lastTick,   \* time of the scheduler's latest evaluation, -1 before the first
  drifts,     \* number of ticks that came earlier or later than P after the last
  attempts,   \* deliveries the NotificationSink has tried, with their outcome
  owner,      \* OWNER_TG_ID, 0 when the environment does not set it
  grants,     \* per account, how many daily calls have returned the reward
  loop,       \* run_simple_polling: position of the loop
  offset,     \* run_simple_polling: the offset local, 0 for None
  inbox,      \* the updates the Bot API holds, in arrival order
  batch,      \* run_simple_polling: the rest of the fetched result list
  dispatched, \* run_simple_polling: the updates handed to a command branch
  replies     \* run_simple_polling: the sendMessage calls made

vars == <<users, raids, parts, now, advances, calls, pc, args, loc, result, entry,
          fired, sent, poll, lastTick, drifts, attempts, owner, grants,
          loop, offset, inbox, batch, dispatched, replies>>
store == <<users, raids, parts>>
sched == <<fired, sent, poll, lastTick, drifts>>
poller == <<loop, offset, inbox, batch, dispatched, replies>>
frames == <<calls, pc, args, loc, result, entry>>

\* --------------------------------------------------------------- datetimes
NoneDT == [tz |-> "none", t |-> 0]
Aware(t) == [tz |-> "utc", t |-> t]
Naive(t) == [tz |-> "naive", t |-> t]

\* _to_aware: None stays None, a naive value is taken to be UTC, an aware
\* value is converted to UTC (every aware value of the program is UTC).
to_aware(dt) ==
  IF dt.tz = "none" THEN NoneDT
  ELSE IF dt.tz = "naive" THEN Aware(dt.t)
  ELSE Aware(dt.t)

\* A DateTime column keeps the wall-clock fields and drops the zone.
DbDateTime(dt) == IF dt.tz = "none" THEN NoneDT ELSE Naive(dt.t)

\* datetime.now(timezone.utc)
utcnow == Aware(now)

\* divmod(int(remaining.total_seconds()), 3600); divmod(rem, 60)
HMS(remaining) ==
  LET secs == remaining \div TicksPerSec
      hh == secs \div 3600
      rem == secs % 3600
  IN  <<hh, rem \div 60, rem % 60>>

\* -------------------------------------------------------------------- rows
NoUser == [id |-> 0, tg_id |-> 0, nick |-> "None", uid |-> "None",
           crystals |-> 0, last_daily |-> NoneDT]
NoRaid == [id |-> 0, boss |-> "None", start_time |-> NoneDT, slots |-> 0,
           creator_id |-> 0]

MaxId(rows) == IF rows = {} THEN 0
               ELSE CHOOSE m \in {r.id : r \in rows} : \A r \in rows : r.id <= m
\* INTEGER PRIMARY KEY: the next rowid is the largest one plus one.
NextId(rows) == MaxId(rows) + 1

\* class User: crystals defaults to 0, last_daily is nullable.
User(id, tg, nick, uid) ==
  [id |-> id, tg_id |-> tg, nick |-> nick, uid |-> uid,
   crystals |-> 0, last_daily |-> NoneDT]
\* class Raid
Raid(id, boss, dt, slots, creator) ==
  [id |-> id, boss |-> boss, start_time |-> DbDateTime(dt), slots |-> slots,
   creator_id |-> creator]
\* class RaidParticipant: no constraint beyond the primary key.
RaidParticipant(id, rid, uid) == [id |-> id, raid_id |-> rid, user_id |-> uid]

\* session.query(User).filter(User.tg_id == tg_id).first()
get_user_by_tg(tg) ==
  IF \E u \in users : u.tg_id = tg
  THEN CHOOSE u \in users : u.tg_id = tg /\ \A v \in users : v.tg_id = tg => u.id <= v.id
  ELSE NoUser

\* session.query(Raid).filter(Raid.id == raid_id).first()
get_raid(rid) ==
  IF \E r \in raids : r.id = rid THEN CHOOSE r \in raids : r.id = rid ELSE NoRaid

\* session.refresh(user) / reload of an expired object by primary key
user_by_id(id) ==
  IF \E u \in users : u.id = id THEN CHOOSE u \in users : u.id = id ELSE NoUser

\* session.query(RaidParticipant).filter(raid_id == rid).count()
count_participants(rid) == Cardinality({rp \in parts : rp.raid_id = rid})

\* session.query(RaidParticipant).filter(raid_id == rid, user_id == uid).first()
participant_exists(rid, uid) == \E rp \in parts : rp.raid_id = rid /\ rp.user_id = uid

\* the users table without its unique index
tg_id_taken_unindexed(tg) == FALSE

\* UNIQUE constraint on users.tg_id, checked when the INSERT is flushed.
tg_id_taken(tg) == \E u \in users : u.tg_id = tg

\* ----------------------------------------------------------- caller frames
NoArgs == [cmd |-> "none", tg |-> 0, rid |-> 0, boss |-> "", dt |-> NoneDT,
           slots |-> 0, nick |-> "None", uid |-> "None"]
NoLoc == [user |-> NoUser, raid |-> NoRaid, count |-> 0, now |-> NoneDT,
          crystals |-> 0, todo |-> <<>>, lines |-> <<>>]
NoResult == [kind |-> "none", balance |-> 0, at |-> 0, remaining |-> 0,
             hms |-> <<0, 0, 0>>, rid |-> 0, lines |-> <<>>]
Res(kind) == [NoResult EXCEPT !.kind = kind]
Snapshot == [users |-> users, raids |-> raids, parts |-> parts]
NoSnapshot == [users |-> {}, raids |-> {}, parts |-> {}]

Idle(p) == pc[p] = "idle"
NoneRunning == \A q \in Procs : Idle(q)

Begin(p, a, label) ==
  /\ Idle(p)
  /\ calls < MaxCalls
  /\ calls' = calls + 1
  /\ pc' = [pc EXCEPT ![p] = label]
  /\ args' = [args EXCEPT ![p] = a]
  /\ loc' = [loc EXCEPT ![p] = NoLoc]
  /\ result' = [result EXCEPT ![p] = NoResult]
  /\ entry' = [entry EXCEPT ![p] = Snapshot]
  /\ UNCHANGED <<sched, attempts, owner, grants, poller, users, raids, parts, now, advances>>

Return(p, r) ==
  /\ pc' = [pc EXCEPT ![p] = "done"]
  /\ result' = [result EXCEPT ![p] = r]

Goto(p, label) ==
  /\ pc' = [pc EXCEPT ![p] = label]
  /\ UNCHANGED result

\* -------------------------------------------- lazy creation of the caller
\* user = get_user_by_tg(session, tg_id); if not user: ...
LookupUser(p, found, missing) ==
  LET u == get_user_by_tg(args[p].tg) IN
  /\ loc' = [loc EXCEPT ![p].user = u]
  /\ Goto(p, IF u = NoUser THEN missing ELSE found)
  /\ UNCHANGED <<sched, attempts, owner, grants, poller, users, raids, parts, now, advances, calls, args, entry>>

\* session.add(User(...)); session.commit(): IntegrityError when the tg_id
\* is already there, and the exception leaves the handler.
InsertUser(p, next) ==
  /\ IF tg_id_taken(args[p].tg)
     THEN /\ Return(p, Res("Exception"))
          /\ UNCHANGED <<users, loc>>
     ELSE LET u == User(NextId(users), args[p].tg, args[p].nick, args[p].uid) IN
          /\ users' = users \cup {u}
          /\ loc' = [loc EXCEPT ![p].user = u]
          /\ Goto(p, next)
  /\ UNCHANGED <<sched, attempts, owner, grants, poller, raids, parts, now, advances, calls, args, entry>>

\* session.refresh(user)
RefreshUser(p, next) ==
  /\ loc' = [loc EXCEPT ![p].user = user_by_id(loc[p].user.id)]
  /\ Goto(p, next)
  /\ UNCHANGED <<sched, attempts, owner, grants, poller, users, raids, parts, now, advances, calls, args, entry>>

\* ------------------------------------------------------- cmd_daily_logic
StartDaily(p, tg) ==
  Begin(p, [NoArgs EXCEPT !.cmd = "daily", !.tg = tg], "daily_lookup")

DailyLookup(p) == pc[p] = "daily_lookup" /\ LookupUser(p, "daily_check", "daily_insert")
DailyInsert(p) == pc[p] = "daily_insert" /\ InsertUser(p, "daily_refresh")
DailyRefresh(p) == pc[p] = "daily_refresh" /\ RefreshUser(p, "daily_check")

\* the cooldown test with the 24h mark still inside the cooldown
cooldown_active_inclusive(last, nw) == last.tz # "none" /\ (nw.t - last.t) <= Cooldown

\* last and (now - last) < timedelta(hours=24)
cooldown_active(last, nw) == last.tz # "none" /\ (nw.t - last.t) < Cooldown

\* the check with the claim time stamped and committed before the test
DailyCheckStamping(p) ==
  /\ pc[p] = "daily_check"
  /\ LET nw == utcnow
         last == to_aware(loc[p].user.last_daily)
     IN IF cooldown_active(last, nw)
        THEN LET remaining == Cooldown - (nw.t - last.t) IN
             /\ Return(p, [Res("Denied") EXCEPT !.remaining = remaining,
                                                 !.hms = HMS(remaining),
                                                 !.at = nw.t])
             /\ loc' = [loc EXCEPT ![p].now = nw]
             /\ users' = {IF u.id = loc[p].user.id
                          THEN [u EXCEPT !.last_daily = DbDateTime(nw)]
                          ELSE u : u \in users}
        ELSE /\ loc' = [loc EXCEPT ![p].now = nw,
                                   ![p].crystals = loc[p].user.crystals + DailyReward]
             /\ Goto(p, "daily_commit")
             /\ UNCHANGED users
  /\ UNCHANGED <<sched, attempts, owner, grants, poller, raids, parts, now, advances, calls, args, entry>>

\* now = datetime.now(utc); last = _to_aware(user.last_daily); the test;
\* on the granting path the two attribute assignments (in memory only).
DailyCheck(p) ==
  /\ pc[p] = "daily_check"
  /\ LET nw == utcnow
         last == to_aware(loc[p].user.last_daily)
     IN IF cooldown_active(last, nw)
        THEN LET remaining == Cooldown - (nw.t - last.t) IN
             /\ Return(p, [Res("Denied") EXCEPT !.remaining = remaining,
                                                 !.hms = HMS(remaining),
                                                 !.at = nw.t])
             /\ loc' = [loc EXCEPT ![p].now = nw]
        ELSE /\ loc' = [loc EXCEPT ![p].now = nw,
                                   ![p].crystals = loc[p].user.crystals + DailyReward]
             /\ Goto(p, "daily_commit")
  /\ UNCHANGED <<sched, attempts, owner, grants, poller, users, raids, parts, now, advances, calls, args, entry>>

\* the commit with the assignment of last_daily left out
DailyCommitNoStamp(p) ==
  /\ pc[p] = "daily_commit"
  /\ users' = {IF u.id = loc[p].user.id
               THEN [u EXCEPT !.crystals = loc[p].crystals]
               ELSE u : u \in users}
  /\ Goto(p, "daily_return")
  /\ UNCHANGED <<sched, attempts, owner, grants, poller, raids, parts, now, advances, calls, args, loc, entry>>

\* session.commit(): UPDATE users SET crystals=?, last_daily=? WHERE id=?
DailyCommit(p) ==
  /\ pc[p] = "daily_commit"
  /\ users' = {IF u.id = loc[p].user.id
               THEN [u EXCEPT !.crystals = loc[p].crystals,
                              !.last_daily = DbDateTime(loc[p].now)]
               ELSE u : u \in users}
  /\ Goto(p, "daily_return")
  /\ UNCHANGED <<sched, attempts, owner, grants, poller, raids, parts, now, advances, calls, args, loc, entry>>

\* the return statement reads user.crystals, which the commit has expired:
\* the row is loaded again.
DailyReturn(p) ==
  /\ pc[p] = "daily_return"
  /\ LET u == user_by_id(loc[p].user.id) IN
     /\ loc' = [loc EXCEPT ![p].user = u]
     /\ Return(p, [Res("Granted") EXCEPT !.balance = u.crystals, !.at = loc[p].now.t])
  /\ grants' = [grants EXCEPT ![args[p].tg] = @ + 1]
  /\ UNCHANGED <<sched, attempts, owner, poller, users, raids, parts, now, advances, calls, args, entry>>

\* ------------------------------------------------- cmd_create_raid_logic
StartCreateRaid(p, tg, boss, dt, slots) ==
  Begin(p, [NoArgs EXCEPT !.cmd = "create_raid", !.tg = tg, !.boss = boss,
                          !.dt = dt, !.slots = slots], "create_lookup")

CreateLookup(p) == pc[p] = "create_lookup" /\ LookupUser(p, "create_commit", "create_insert")
CreateInsert(p) == pc[p] = "create_insert" /\ InsertUser(p, "create_refresh")
CreateRefresh(p) == pc[p] = "create_refresh" /\ RefreshUser(p, "create_commit")

\* the creation of a raid that also signs its creator up
CreateCommitJoining(p) ==
  /\ pc[p] = "create_commit"
  /\ LET r == Raid(NextId(raids), args[p].boss, args[p].dt, args[p].slots,
                   loc[p].user.id) IN
     /\ raids' = raids \cup {r}
     /\ parts' = parts \cup {RaidParticipant(NextId(parts), r.id, loc[p].user.id)}
     /\ loc' = [loc EXCEPT ![p].raid = r]
     /\ Return(p, [Res("Created") EXCEPT !.rid = r.id])
  /\ UNCHANGED <<sched, attempts, owner, grants, poller, users, now, advances, calls, args, entry>>

\* raid = Raid(...); session.add(raid); session.commit(); rid = raid.id
CreateCommit(p) ==
  /\ pc[p] = "create_commit"
  /\ LET r == Raid(NextId(raids), args[p].boss, args[p].dt, args[p].slots,
                   loc[p].user.id) IN
     /\ raids' = raids \cup {r}
     /\ loc' = [loc EXCEPT ![p].raid = r]
     /\ Return(p, [Res("Created") EXCEPT !.rid = r.id])
  /\ UNCHANGED <<sched, attempts, owner, grants, poller, users, parts, now, advances, calls, args, entry>>

\* --------------------------------------------------------- cmd_join_logic
StartJoin(p, tg, rid) ==
  Begin(p, [NoArgs EXCEPT !.cmd = "join", !.tg = tg, !.rid = rid], "join_raid")

\* the raid lookup placed after the lazy creation of the caller
JoinRaidAfterUser(p) ==
  /\ pc[p] = "join_raid"
  /\ LET r == get_raid(args[p].rid) IN
     IF r = NoRaid
     THEN /\ Return(p, Res("NotFound"))
          /\ UNCHANGED loc
          /\ users' = IF tg_id_taken(args[p].tg) THEN users
                      ELSE users \cup {User(NextId(users), args[p].tg, "None", "None")}
     ELSE /\ loc' = [loc EXCEPT ![p].raid = r]
          /\ Goto(p, "join_lookup")
          /\ UNCHANGED users
  /\ UNCHANGED <<sched, attempts, owner, grants, poller, raids, parts, now, advances, calls, args, entry>>

\* raid = session.query(Raid).filter(Raid.id == raid_id).first()
JoinRaid(p) ==
  /\ pc[p] = "join_raid"
  /\ LET r == get_raid(args[p].rid) IN
     IF r = NoRaid
     THEN Return(p, Res("NotFound")) /\ UNCHANGED loc
     ELSE loc' = [loc EXCEPT ![p].raid = r] /\ Goto(p, "join_lookup")
  /\ UNCHANGED <<sched, attempts, owner, grants, poller, users, raids, parts, now, advances, calls, args, entry>>

JoinLookup(p) == pc[p] = "join_lookup" /\ LookupUser(p, "join_count", "join_insert")
JoinInsert(p) == pc[p] = "join_insert" /\ InsertUser(p, "join_refresh")
JoinRefresh(p) == pc[p] = "join_refresh" /\ RefreshUser(p, "join_count")

\* the capacity test letting one caller too many through
raid_full_strict(count, slots) == count > slots

\* if count >= raid.slots
raid_full(count, slots) == count >= slots

\* count = session.query(RaidParticipant).filter(...).count()
JoinCount(p) ==
  /\ pc[p] = "join_count"
  /\ LET count == count_participants(loc[p].raid.id) IN
     /\ loc' = [loc EXCEPT ![p].count = count]
     /\ IF raid_full(count, loc[p].raid.slots)
        THEN Return(p, Res("Full"))
        ELSE Goto(p, "join_exists")
  /\ UNCHANGED <<sched, attempts, owner, grants, poller, users, raids, parts, now, advances, calls, args, entry>>

\* exists = session.query(RaidParticipant).filter(raid, user).first()
JoinExists(p) ==
  /\ pc[p] = "join_exists"
  /\ IF participant_exists(loc[p].raid.id, loc[p].user.id)
     THEN Return(p, Res("AlreadyJoined"))
     ELSE Goto(p, "join_commit")
  /\ UNCHANGED <<sched, attempts, owner, grants, poller, users, raids, parts, now, advances, calls, args, loc, entry>>

\* the join that takes its slot out of the raid's capacity
JoinCommitTakingSlot(p) ==
  /\ pc[p] = "join_commit"
  /\ parts' = parts \cup {RaidParticipant(NextId(parts), loc[p].raid.id, loc[p].user.id)}
  /\ raids' = {IF r.id = loc[p].raid.id THEN [r EXCEPT !.slots = r.slots - 1] ELSE r
                : r \in raids}
  /\ Return(p, [Res("Joined") EXCEPT !.rid = loc[p].raid.id])
  /\ UNCHANGED <<sched, attempts, owner, grants, poller, users, now, advances, calls, args, loc, entry>>

\* session.add(RaidParticipant(...)); session.commit()
JoinCommit(p) ==
  /\ pc[p] = "join_commit"
  /\ parts' = parts \cup {RaidParticipant(NextId(parts), loc[p].raid.id, loc[p].user.id)}
  /\ Return(p, [Res("Joined") EXCEPT !.rid = loc[p].raid.id])
  /\ UNCHANGED <<sched, attempts, owner, grants, poller, users, raids, now, advances, calls, args, loc, entry>>

\* ------------------------------------------------------- cmd_start_logic
StartRegister(p, tg, nick) ==
  Begin(p, [NoArgs EXCEPT !.cmd = "start", !.tg = tg, !.nick = nick], "start_lookup")

RegisterLookup(p) == pc[p] = "start_lookup" /\ LookupUser(p, "start_known", "start_insert")
RegisterInsert(p) == pc[p] = "start_insert" /\ InsertUser(p, "start_refresh")

\* session.refresh(user); return "Привет! Ты зарегистрирован. ..."
RegisterRefresh(p) ==
  /\ pc[p] = "start_refresh"
  /\ loc' = [loc EXCEPT ![p].user = user_by_id(loc[p].user.id)]
  /\ Return(p, Res("Registered"))
  /\ UNCHANGED <<sched, attempts, owner, grants, poller, users, raids, parts, now, advances, calls, args, entry>>

\* return "/profile чтобы посмотреть профиль"
RegisterKnown(p) ==
  /\ pc[p] = "start_known"
  /\ Return(p, Res("Known"))
  /\ UNCHANGED <<sched, attempts, owner, grants, poller, users, raids, parts, now, advances, calls, args, loc, entry>>

\* ----------------------------------------------------- cmd_linkuid_logic
StartLinkUid(p, tg, uid) ==
  Begin(p, [NoArgs EXCEPT !.cmd = "linkuid", !.tg = tg, !.uid = uid], "link_lookup")

LinkLookup(p) == pc[p] = "link_lookup" /\ LookupUser(p, "link_update", "link_insert")

\* user = User(tg_id=tg_id, uid=uid); session.add(user); session.commit()
LinkInsert(p) ==
  /\ pc[p] = "link_insert"
  /\ IF tg_id_taken(args[p].tg)
     THEN /\ Return(p, Res("Exception"))
          /\ UNCHANGED <<users, loc>>
     ELSE LET u == User(NextId(users), args[p].tg, "None", args[p].uid) IN
          /\ users' = users \cup {u}
          /\ loc' = [loc EXCEPT ![p].user = u]
          /\ Return(p, Res("Linked"))
  /\ UNCHANGED <<sched, attempts, owner, grants, poller, raids, parts, now, advances, calls, args, entry>>

\* the update writing the whole row back as the lookup loaded it
LinkUpdateWholeRow(p) ==
  /\ pc[p] = "link_update"
  /\ users' = {IF u.id = loc[p].user.id THEN [loc[p].user EXCEPT !.uid = args[p].uid] ELSE u
                : u \in users}
  /\ Return(p, Res("Linked"))
  /\ UNCHANGED <<sched, attempts, owner, grants, poller, raids, parts, now, advances, calls, args, loc, entry>>

\* user.uid = uid; session.commit(): UPDATE users SET uid=? WHERE id=?
LinkUpdate(p) ==
  /\ pc[p] = "link_update"
  /\ users' = {IF u.id = loc[p].user.id THEN [u EXCEPT !.uid = args[p].uid] ELSE u
                : u \in users}
  /\ Return(p, Res("Linked"))
  /\ UNCHANGED <<sched, attempts, owner, grants, poller, raids, parts, now, advances, calls, args, loc, entry>>

\* ------------------------------------------------ cmd_export_raids_logic
StartExport(p, tg) ==
  Begin(p, [NoArgs EXCEPT !.cmd = "export_raids", !.tg = tg], "export_check")

\* session.query(Raid).all(): the rows in rowid order
RECURSIVE InIdOrder(_)
InIdOrder(rows) ==
  IF rows = {} THEN <<>>
  ELSE LET r == CHOOSE x \in rows : \A y \in rows : x.id <= y.id
       IN  <<r>> \o InIdOrder(rows \ {r})

\* if OWNER_TG_ID and tg_id != OWNER_TG_ID
is_refused(own, tg) == own # 0 /\ tg # own

ExportCheck(p) ==
  /\ pc[p] = "export_check"
  /\ IF is_refused(owner, args[p].tg)
     THEN Return(p, Res("Refused"))
     ELSE Goto(p, "export_raids")
  /\ UNCHANGED <<sched, attempts, owner, grants, poller, users, raids, parts, now, advances, calls, args, loc, entry>>

\* the raid query joined with the participants: a raid nobody joined is left out
ExportRaidsJoinedOnly(p) ==
  /\ pc[p] = "export_raids"
  /\ loc' = [loc EXCEPT ![p].todo = InIdOrder({r \in raids : count_participants(r.id) > 0}),
                        ![p].lines = <<>>]
  /\ Goto(p, "export_row")
  /\ UNCHANGED <<sched, attempts, owner, grants, poller, users, raids, parts, now, advances, calls, args, entry>>

\* raids = session.query(Raid).all(); lines = []
ExportRaids(p) ==
  /\ pc[p] = "export_raids"
  /\ loc' = [loc EXCEPT ![p].todo = InIdOrder(raids), ![p].lines = <<>>]
  /\ Goto(p, "export_row")
  /\ UNCHANGED <<sched, attempts, owner, grants, poller, users, raids, parts, now, advances, calls, args, entry>>

\* for r in raids: participants = session.query(RaidParticipant)...all();
\* lines.append(f"{r.id}\t{r.boss}\t{r.start_time.isoformat()}\t{r.slots}\t{len(participants)}")
ExportRow(p) ==
  /\ pc[p] = "export_row"
  /\ loc[p].todo # <<>>
  /\ LET r == Head(loc[p].todo) IN
     loc' = [loc EXCEPT ![p].todo = Tail(loc[p].todo),
                        ![p].lines = Append(loc[p].lines,
                           [id |-> r.id, boss |-> r.boss, start |-> r.start_time,
                            slots |-> r.slots, n |-> count_participants(r.id)])]
  /\ Goto(p, "export_row")
  /\ UNCHANGED <<sched, attempts, owner, grants, poller, users, raids, parts, now, advances, calls, args, entry>>

\* return "ID\tBoss\tStart\tSlots\tParticipants\n" + "\n".join(lines)
ExportReturn(p) ==
  /\ pc[p] = "export_row"
  /\ loc[p].todo = <<>>
  /\ Return(p, [Res("Report") EXCEPT !.lines = loc[p].lines])
  /\ UNCHANGED <<sched, attempts, owner, grants, poller, users, raids, parts, now, advances, calls, args, loc, entry>>

\* resp = cmd_..._logic(...); send_message_via_api(chat_id, resp): the
\* handler's frame is gone once the answer is sent.
Reply(p) ==
  /\ pc[p] = "done"
  /\ pc' = [pc EXCEPT ![p] = "idle"]
  /\ args' = [args EXCEPT ![p] = NoArgs]
  /\ loc' = [loc EXCEPT ![p] = NoLoc]
  /\ result' = [result EXCEPT ![p] = NoResult]
  /\ entry' = [entry EXCEPT ![p] = NoSnapshot]
  /\ UNCHANGED <<sched, attempts, owner, grants, poller, users, raids, parts, now, advances, calls>>

\* ------------------------------------------------------------------ clock
Advance(d) ==
  /\ advances < MaxAdvances
  /\ now' = now + d
  /\ advances' = advances + 1
  /\ UNCHANGED <<sched, attempts, owner, grants, poller, users, raids, parts, calls, pc, args, loc, result, entry>>

\* ---------------------------------------------------------- specifications
InitTables ==
  /\ users = {}
  /\ raids = {}
  /\ parts = {}
  /\ now = 0
  /\ advances = 0
  /\ calls = 0
  /\ pc = [p \in Procs |-> "idle"]
  /\ args = [p \in Procs |-> NoArgs]
  /\ loc = [p \in Procs |-> NoLoc]
  /\ result = [p \in Procs |-> NoResult]
  /\ entry = [p \in Procs |-> NoSnapshot]
  /\ fired = {}
  /\ sent = {}
  /\ poll = DefaultPoll
  /\ lastTick = -1
  /\ drifts = 0
  /\ attempts = {}
  /\ grants = [tg \in TgIds |-> 0]
  /\ loop = "fetch"
  /\ offset = 0
  /\ inbox = <<>>
  /\ batch = <<>>
  /\ dispatched = <<>>
  /\ replies = <<>>

\* OWNER_TG_ID = int(os.getenv("OWNER_TG_ID") or 0), the variable not set
Init == InitTables /\ owner = 0

DtArgs == {Aware(now + 31 * Minute)}

Step(p) ==
  \/ DailyLookup(p) \/ DailyInsert(p) \/ DailyRefresh(p)
  \/ DailyCheck(p) \/ DailyCommit(p) \/ DailyReturn(p)
  \/ CreateLookup(p) \/ CreateInsert(p) \/ CreateRefresh(p) \/ CreateCommit(p)
  \/ JoinRaid(p) \/ JoinLookup(p) \/ JoinInsert(p) \/ JoinRefresh(p)
  \/ JoinCount(p) \/ JoinExists(p) \/ JoinCommit(p)
  \/ Reply(p)

StartAny(p) ==
  \/ \E tg \in TgIds : StartDaily(p, tg)
  \/ \E tg \in TgIds, a \in CreateArgs, dt \in DtArgs :
       /\ Cardinality(raids) < MaxRaids
       /\ StartCreateRaid(p, tg, a[1], dt, a[2])
  \/ \E tg \in TgIds, rid \in RaidIdArgs : StartJoin(p, tg, rid)

\* One command at a time, as the getUpdates loop runs them.
Next ==
  \/ \E p \in Procs : NoneRunning /\ StartAny(p)
  \/ \E p \in Procs : Step(p)
  \/ \E d \in ClockSteps : Advance(d)

Spec == Init /\ [][Next]_vars

\* Commands of several callers interleaved statement by statement.
NextConc ==
  \/ \E p \in Procs : StartAny(p)
  \/ \E p \in Procs : Step(p)
  \/ \E d \in ConcClockSteps : Advance(d)

SpecConc == Init /\ [][NextConc]_vars

\* The steps of /start, /linkuid and /export_raids.
StepMore(p) ==
  \/ RegisterLookup(p) \/ RegisterInsert(p) \/ RegisterRefresh(p) \/ RegisterKnown(p)
  \/ LinkLookup(p) \/ LinkInsert(p) \/ LinkUpdate(p)
  \/ ExportCheck(p) \/ ExportRaids(p) \/ ExportRow(p) \/ ExportReturn(p)

StartMore(p) ==
  \/ \E tg \in TgIds, nick \in Nicks : StartRegister(p, tg, nick)
  \/ \E tg \in TgIds, uid \in Uids : StartLinkUid(p, tg, uid)
  \/ \E tg \in TgIds : StartExport(p, tg)

\* OWNER_TG_ID as the environment sets it
InitAll == InitTables /\ owner \in OwnerIds

\* Every command of the bot, one at a time.
NextAll ==
  \/ \E p \in Procs : NoneRunning /\ (StartAny(p) \/ StartMore(p))
  \/ \E p \in Procs : Step(p) \/ StepMore(p)
  \/ \E d \in ConcClockSteps : Advance(d)

SpecAll == InitAll /\ [][NextAll]_vars

\* Every command of the bot, interleaved statement by statement.
NextAllConc ==
  \/ \E p \in Procs : StartAny(p) \/ StartMore(p)
  \/ \E p \in Procs : Step(p) \/ StepMore(p)

SpecAllConc == InitAll /\ [][NextAllConc]_vars

\* ---------------------------------------------------- run_simple_polling
\* What an update of getUpdates can be: without a "message" key, a message
\* that is no command, /help, a command, a message without its "from".
UpdateKinds == {"nomessage", "text", "help", "daily", "create_raid", "nofrom"}
Commands == {"daily", "create_raid"}
\* the one thread of the loop, and the account the commands come from
Handler == 1
PollFrom == 11

\* a new update reaches the Bot API server and gets the next update_id
Arrive(k) ==
  /\ Len(inbox) < MaxCalls
  /\ inbox' = Append(inbox, [id |-> Len(inbox) + 1, kind |-> k])
  /\ UNCHANGED <<store, now, advances, frames, sched, attempts, owner, grants,
                 loop, offset, batch, dispatched, replies>>

\* the updates getUpdates returns: with an offset, those from it on
pending(off) == SelectSeq(inbox, LAMBDA u : u.id >= off)

\* r = requests.get(.../getUpdates); r.raise_for_status(); data = r.json();
\* if not data.get("ok"): time.sleep(1); continue
FetchUpdates(outcome) ==
  /\ loop = "fetch"
  /\ IF outcome = "ok"
     THEN /\ batch' = pending(offset)
          /\ loop' = IF pending(offset) = <<>> THEN "fetch" ELSE "batch"
     ELSE /\ batch' = <<>>
          /\ loop' = "sleep"
  /\ UNCHANGED <<store, now, advances, frames, sched, attempts, owner, grants,
                 offset, inbox, dispatched, replies>>

\* time.sleep(1) and time.sleep(3): the loop goes round again
Wake ==
  /\ loop = "sleep"
  /\ loop' = "fetch"
  /\ UNCHANGED <<store, now, advances, frames, sched, attempts, owner, grants,
                 offset, inbox, batch, dispatched, replies>>

\* the loop's place once the update at the head of the batch is done with
after_head == IF Tail(batch) = <<>> THEN "fetch" ELSE "batch"

\* the loop leaving the offset at the id of the update it has taken up
NextUpdateSameOffset ==
  /\ loop = "batch"
  /\ batch # <<>>
  /\ LET upd == Head(batch) IN
     /\ offset' = upd.id
     /\ CASE upd.kind \in {"nomessage", "text"} ->
               /\ batch' = Tail(batch)
               /\ loop' = after_head
               /\ UNCHANGED <<dispatched, replies>>
          [] upd.kind = "nofrom" ->
               \* msg["from"]["id"]: KeyError, caught by the outer except
               /\ batch' = <<>>
               /\ loop' = "sleep"
               /\ UNCHANGED <<dispatched, replies>>
          [] upd.kind = "help" ->
               /\ replies' = Append(replies, [id |-> upd.id, kind |-> "help"])
               /\ batch' = Tail(batch)
               /\ loop' = after_head
               /\ UNCHANGED dispatched
          [] upd.kind \in Commands ->
               /\ dispatched' = Append(dispatched,
                     [id |-> upd.id, cmd |-> upd.kind, outcome |-> "running"])
               /\ loop' = "dispatch"
               /\ UNCHANGED <<batch, replies>>
  /\ UNCHANGED <<store, now, advances, frames, sched, attempts, owner, grants, inbox>>

\* for upd in data.get("result", []): offset = upd["update_id"] + 1; ...
NextUpdate ==
  /\ loop = "batch"
  /\ batch # <<>>
  /\ LET upd == Head(batch) IN
     /\ offset' = upd.id + 1
     /\ CASE upd.kind \in {"nomessage", "text"} ->
               /\ batch' = Tail(batch)
               /\ loop' = after_head
               /\ UNCHANGED <<dispatched, replies>>
          [] upd.kind = "nofrom" ->
               \* msg["from"]["id"]: KeyError, caught by the outer except
               /\ batch' = <<>>
               /\ loop' = "sleep"
               /\ UNCHANGED <<dispatched, replies>>
          [] upd.kind = "help" ->
               /\ replies' = Append(replies, [id |-> upd.id, kind |-> "help"])
               /\ batch' = Tail(batch)
               /\ loop' = after_head
               /\ UNCHANGED dispatched
          [] upd.kind \in Commands ->
               /\ dispatched' = Append(dispatched,
                     [id |-> upd.id, cmd |-> upd.kind, outcome |-> "running"])
               /\ loop' = "dispatch"
               /\ UNCHANGED <<batch, replies>>
  /\ UNCHANGED <<store, now, advances, frames, sched, attempts, owner, grants, inbox>>

\* resp = cmd_daily_logic(from_id) / resp = cmd_create_raid_logic(from_id, boss, dt, slots)
Call ==
  /\ loop = "dispatch"
  /\ IF Head(batch).kind = "daily"
     THEN StartDaily(Handler, PollFrom)
     ELSE StartCreateRaid(Handler, PollFrom, "Hydra", Aware(now + 31 * Minute), 1)

\* a statement of the running command fails in the storage layer
\* (sqlalchemy.exc.OperationalError and the like) and the exception leaves
\* the command function
StorageFails(p) ==
  /\ pc[p] \notin {"idle", "done"}
  /\ Return(p, Res("Exception"))
  /\ UNCHANGED <<sched, attempts, owner, grants, poller, users, raids, parts, now, advances, calls, args, loc, entry>>

\* the text sent for the command: its answer; for an exception out of
\* create_raid the inner except's format message; for any other exception
\* the outer handler's "Ошибка при обработке команды."
reply_kind(cmd, res) ==
  IF res.kind # "Exception" THEN "answer"
  ELSE IF cmd = "create_raid" THEN "format"
  ELSE "failure"

\* send_message_via_api(chat_id, resp), or the except branches; then the
\* next update of the batch
Finish ==
  /\ loop = "dispatch"
  /\ pc[Handler] = "done"
  /\ LET upd == Head(batch) IN
     /\ replies' = Append(replies,
           [id |-> upd.id, kind |-> reply_kind(upd.kind, result[Handler])])
     /\ dispatched' = [dispatched EXCEPT ![Len(dispatched)].outcome =
           IF result[Handler].kind = "Exception" THEN "raised" ELSE "returned"]
  /\ batch' = Tail(batch)
  /\ loop' = after_head
  /\ pc' = [pc EXCEPT ![Handler] = "idle"]
  /\ args' = [args EXCEPT ![Handler] = NoArgs]
  /\ loc' = [loc EXCEPT ![Handler] = NoLoc]
  /\ result' = [result EXCEPT ![Handler] = NoResult]
  /\ entry' = [entry EXCEPT ![Handler] = NoSnapshot]
  /\ UNCHANGED <<store, now, advances, calls, sched, attempts, owner, grants, offset, inbox>>

\* the statements of the two commands the loop is driven with
PollStep(p) ==
  \/ DailyLookup(p) \/ DailyInsert(p) \/ DailyRefresh(p)
  \/ DailyCheck(p) \/ DailyCommit(p) \/ DailyReturn(p)
  \/ CreateLookup(p) \/ CreateInsert(p) \/ CreateRefresh(p) \/ CreateCommit(p)

NextPoll ==
  \/ \E k \in UpdateKinds : Arrive(k)
  \/ \E outcome \in {"ok", "not_ok", "error"} : FetchUpdates(outcome)
  \/ Wake
  \/ NextUpdate
  \/ Call
  \/ PollStep(Handler)
  \/ StorageFails(Handler)
  \/ Finish

SpecPoll == Init /\ [][NextPoll]_vars

\* ------------------------------------------------------ reminder scheduler
\* (spec section 4.3; the source file has no scheduler)
ThresholdGap == (Threshold30 - Threshold10) * Minute
MinThreshold == Threshold10 * Minute

\* the window with its first instant left out
in_window_strict(remaining, t, P) == remaining < t * Minute /\ remaining > t * Minute - P

\* step 3: remaining <= t minutes and remaining > t minutes - P
in_window(remaining, t, P) == remaining <= t * Minute /\ remaining > t * Minute - P

\* step 1 without the skip of the raids that have started
live_raids_all(t) == raids

\* step 1: raids with startTime > now
live_raids(t) == {r \in raids : to_aware(r.start_time).t > t}

\* the due thresholds without the look at the Fired markers
due_pairs_unmarked(t) ==
  {pr \in {<<r.id, th>> : r \in live_raids(t), th \in Thresholds} :
     in_window(to_aware(get_raid(pr[1]).start_time).t - t, pr[2], poll)}

\* step 3: the thresholds of a live raid that are not Fired and whose window
\* holds the current time
due_pairs(t) ==
  {pr \in {<<r.id, th>> : r \in live_raids(t), th \in Thresholds} :
     /\ pr \notin fired
     /\ in_window(to_aware(get_raid(pr[1]).start_time).t - t, pr[2], poll)}

\* step 4: raid creator and all current participants, deduplicated
recipients(rid) ==
  {user_by_id(get_raid(rid).creator_id).tg_id}
    \cup {user_by_id(rp.user_id).tg_id : rp \in {x \in parts : x.raid_id = rid}}

\* one evaluation tick at the current time, then the sleep of d ticks
SchedTick(d) ==
  /\ now <= SchedHorizon
  /\ LET due == due_pairs(now) IN
     /\ fired' = fired \cup due
     /\ sent' = sent \cup {[raid |-> pr[1], t |-> pr[2], at |-> now,
                            to |-> recipients(pr[1])] : pr \in due}
  /\ lastTick' = now
  /\ now' = now + d
  /\ drifts' = IF d # poll THEN drifts + 1 ELSE drifts
  /\ UNCHANGED <<users, raids, parts, advances, frames, poll, attempts, owner, grants, poller>>

TickRegular == SchedTick(poll)
TickDrift == \E d \in Drifts : d # poll /\ drifts < MaxDrifts /\ SchedTick(d)

\* A store holding one raid made by the first user and joined by the second.
InitSched ==
  /\ users = {User(i, 10 + i, "None", "None") : i \in 1 .. NUsers}
  /\ raids = {Raid(1, "Hydra", Aware(SchedStart), MaxSlots, 1)}
  /\ parts = {RaidParticipant(1, 1, NUsers)}
  /\ now \in Phases
  /\ advances = 0
  /\ calls = 0
  /\ pc = [p \in Procs |-> "idle"]
  /\ args = [p \in Procs |-> NoArgs]
  /\ loc = [p \in Procs |-> NoLoc]
  /\ result = [p \in Procs |-> NoResult]
  /\ entry = [p \in Procs |-> NoSnapshot]
  /\ fired = {}
  /\ sent = {}
  /\ poll \in Polls
  /\ lastTick = -1
  /\ drifts = 0
  /\ attempts = {}
  /\ grants = [tg \in TgIds |-> 0]
  /\ owner = 0
  /\ loop = "fetch"
  /\ offset = 0
  /\ inbox = <<>>
  /\ batch = <<>>
  /\ dispatched = <<>>
  /\ replies = <<>>

NextSched == TickRegular \/ TickDrift

SpecSched == InitSched /\ [][NextSched]_vars

\* a tick held up for longer than a window lasts
TickStall == \E d \in Stalls : d # poll /\ drifts < MaxDrifts /\ SchedTick(d)

\* The store of InitSched with a second raid whose start time has gone by.
InitExpiry ==
  /\ users = {User(i, 10 + i, "None", "None") : i \in 1 .. NUsers}
  /\ raids = {Raid(1, "Hydra", Aware(SchedStart), MaxSlots, 1),
              Raid(2, "Hydra", Aware(PastStart), MaxSlots, 1)}
  /\ parts = {RaidParticipant(1, 1, NUsers), RaidParticipant(2, 2, NUsers)}
  /\ now \in Phases
  /\ advances = 0
  /\ calls = 0
  /\ pc = [p \in Procs |-> "idle"]
  /\ args = [p \in Procs |-> NoArgs]
  /\ loc = [p \in Procs |-> NoLoc]
  /\ result = [p \in Procs |-> NoResult]
  /\ entry = [p \in Procs |-> NoSnapshot]
  /\ fired = {}
  /\ sent = {}
  /\ poll \in Polls
  /\ lastTick = -1
  /\ drifts = 0
  /\ attempts = {}
  /\ grants = [tg \in TgIds |-> 0]
  /\ owner = 0
  /\ loop = "fetch"
  /\ offset = 0
  /\ inbox = <<>>
  /\ batch = <<>>
  /\ dispatched = <<>>
  /\ replies = <<>>

NextExpiry == TickRegular \/ TickDrift \/ TickStall

SpecExpiry == InitExpiry /\ [][NextExpiry]_vars

\* the recipients of a burst the sink has not been tried for yet
undelivered(b) == {u \in b.to : ~ \E a \in attempts : a.raid = b.raid /\ a.t = b.t /\ a.to = u}

\* a delivery whose failure puts the pair back to Pending
DeliverRetrying(b, u, ok) ==
  /\ b \in sent
  /\ u \in undelivered(b)
  /\ attempts' = attempts \cup {[raid |-> b.raid, t |-> b.t, to |-> u, ok |-> ok]}
  /\ fired' = IF ok THEN fired ELSE fired \ {<<b.raid, b.t>>}
  /\ UNCHANGED <<users, raids, parts, now, advances, frames, sent, poll, lastTick,
                 drifts, owner, grants, poller>>

\* step 4, NotificationSink: one recipient's message is handed over; a
\* failure is logged and swallowed and the scheduler's state stays as it is
Deliver(b, u, ok) ==
  /\ b \in sent
  /\ u \in undelivered(b)
  /\ attempts' = attempts \cup {[raid |-> b.raid, t |-> b.t, to |-> u, ok |-> ok]}
  /\ UNCHANGED <<users, raids, parts, now, advances, frames, sched, owner, grants, poller>>

NextDeliver ==
  \/ TickRegular
  \/ TickDrift
  \/ \E b \in sent, u \in TgIds, ok \in BOOLEAN : Deliver(b, u, ok)

SpecDeliver == InitSched /\ [][NextDeliver]_vars

\* ================================================================ claims
Done(p, cmd) == pc[p] = "done" /\ args[p].cmd = cmd

\* the caller's row as the tables held it when the command began
entry_user(p) ==
  IF \E u \in entry[p].users : u.tg_id = args[p].tg
  THEN CHOOSE u \in entry[p].users : u.tg_id = args[p].tg
  ELSE NoUser

Abs(n) == IF n < 0 THEN 0 - n ELSE n

\* C1: in every reachable state, with join calls interleaved statement by
\* statement, a raid never has more participant rows than slots.
C1_CapacityNeverExceeded ==
  \A r \in raids : count_participants(r.id) <= r.slots

\* C2: when every caller has finished a join of the same existing raid of
\* capacity K, the callers being distinct users, all of them having begun
\* while the raid had no participant, and there being at least K of them,
\* exactly K got Joined and the others got Full.
C2_ExactlyKJoined ==
  \A r \in raids :
    ( /\ \A p \in Procs : Done(p, "join") /\ args[p].rid = r.id
                          /\ r \in entry[p].raids
                          /\ ~ \E rp \in entry[p].parts : rp.raid_id = r.id
      /\ \A p, q \in Procs : p # q => args[p].tg # args[q].tg
      /\ NProcs >= r.slots )
    => /\ Cardinality({p \in Procs : result[p].kind = "Joined"}) = r.slots
       /\ Cardinality({p \in Procs : result[p].kind = "Full"}) = NProcs - r.slots

\* C3: two claims of one user that both returned Granted are at least 24
\* hours apart, whatever the interleaving of the claim calls.
C3_GrantsADayApart ==
  \A p, q \in Procs :
    ( /\ p # q
      /\ Done(p, "daily") /\ Done(q, "daily")
      /\ args[p].tg = args[q].tg
      /\ result[p].kind = "Granted" /\ result[q].kind = "Granted" )
    => Abs(result[p].at - result[q].at) >= Cooldown

\* the bursts handed to the sink for one (raid, threshold) pair
bursts(rid, th) == {b \in sent : b.raid = rid /\ b.t = th}

\* C4: over any sequence of ticks, regular or drifting, each (raid,
\* threshold) pair has at most one notification burst.
C4_AtMostOneBurst ==
  \A r \in raids, th \in Thresholds : Cardinality(bursts(r.id, th)) <= 1

\* C4 witness: a tick was evaluated after the burst of a pair, at a time
\* still inside that pair's window.
C4_Witness ==
  \E b \in sent :
    /\ lastTick > b.at
    /\ in_window(to_aware(get_raid(b.raid).start_time).t - lastTick, b.t, poll)

\* every burst of a pair lies in the pair's window, there is at most one,
\* and there is one as soon as the window is over
caught_once(r, th) ==
  LET lo == to_aware(r.start_time).t - th * Minute IN
  /\ \A b \in bursts(r.id, th) : lo <= b.at /\ b.at < lo + poll
  /\ Cardinality(bursts(r.id, th)) <= 1
  /\ now >= lo + poll => Cardinality(bursts(r.id, th)) = 1

\* C5 as stated: ticking every P, with P at most the spacing of the two
\* thresholds, every threshold is fired on exactly one tick, the one in
\* [startTime - t, startTime - t + P).
C5_CaughtOnceUpToGap ==
  (drifts = 0 /\ poll <= ThresholdGap)
    => \A r \in raids, th \in Thresholds : caught_once(r, th)

\* C5 amended: the same, for P at most the spacing of the thresholds and at
\* most the smallest threshold, so that no window reaches startTime.
C5_CaughtOnce ==
  (drifts = 0 /\ poll <= ThresholdGap /\ poll <= MinThreshold)
    => \A r \in raids, th \in Thresholds : caught_once(r, th)

\* C5 witness: regular ticks at a poll interval within both limits have
\* gone past the start of a raid and both thresholds have fired.
C5_Witness ==
  /\ drifts = 0 /\ poll <= ThresholdGap /\ poll <= MinThreshold
  /\ \E r \in raids :
       /\ now >= to_aware(r.start_time).t
       /\ \A th \in Thresholds : bursts(r.id, th) # {}

\* the caller was a participant of the raid when the command began
entry_joined(p) ==
  /\ entry_user(p) # NoUser
  /\ \E rp \in entry[p].parts :
       rp.raid_id = args[p].rid /\ rp.user_id = entry_user(p).id

\* C6: a join by a user who is already a participant of the raid returns
\* AlreadyJoined, full raid or not, and adds no participant row.
C6_RejoinAlreadyJoined ==
  \A p \in Procs :
    (Done(p, "join") /\ entry_joined(p))
      => result[p].kind = "AlreadyJoined" /\ parts = entry[p].parts

\* C7: there is at most one participant row per (raid, user) pair, also
\* when one user's two joins of a raid are interleaved.
C7_OneRowPerPair ==
  \A a, b \in parts :
    (a.raid_id = b.raid_id /\ a.user_id = b.user_id) => a = b

\* C8: a claim that finds the previous grant less than 24h back is Denied
\* with remaining = 24h - elapsed (shown as whole seconds HH:MM:SS); a claim
\* 24h or more after it, or by a user who never claimed, is Granted.
C8_CooldownOutcome ==
  \A p \in Procs :
    Done(p, "daily") =>
      LET last == to_aware(entry_user(p).last_daily)
          t1 == result[p].at
      IN IF last.tz = "none" THEN result[p].kind = "Granted"
         ELSE IF t1 - last.t < Cooldown
         THEN /\ result[p].kind = "Denied"
              /\ result[p].remaining = Cooldown - (t1 - last.t)
              /\ result[p].hms[1] * 3600 + result[p].hms[2] * 60 + result[p].hms[3]
                   = (Cooldown - (t1 - last.t)) \div TicksPerSec
              /\ result[p].hms[2] < 60 /\ result[p].hms[3] < 60
         ELSE result[p].kind = "Granted"

\* C8 witness: a claim made exactly 24h after the previous grant has
\* returned.
C8_Witness ==
  \E p \in Procs :
    /\ Done(p, "daily")
    /\ entry_user(p).last_daily.tz # "none"
    /\ result[p].at = entry_user(p).last_daily.t + Cooldown

\* C9: a claim that returned Denied has changed nothing: the tables are
\* what they were when it began, the user's balance and claim time included.
C9_DeniedNoMutation ==
  \A p \in Procs :
    (Done(p, "daily") /\ result[p].kind = "Denied")
      => /\ users = entry[p].users
         /\ get_user_by_tg(args[p].tg).crystals = entry_user(p).crystals
         /\ get_user_by_tg(args[p].tg).last_daily = entry_user(p).last_daily

\* C9 witness: a claim one tick after a grant was Denied, with 23:59:59 left.
C9_Witness ==
  \E p \in Procs :
    /\ Done(p, "daily") /\ result[p].kind = "Denied"
    /\ result[p].hms = <<23, 59, 59>>

\* C10: a claim that returned Granted at time t has raised the balance by
\* exactly 50, has set the claim time to t, and reports the old balance + 50.
C10_GrantedEffect ==
  \A p \in Procs :
    (Done(p, "daily") /\ result[p].kind = "Granted")
      => LET u == get_user_by_tg(args[p].tg) IN
         /\ u.crystals = entry_user(p).crystals + 50
         /\ to_aware(u.last_daily) = Aware(result[p].at)
         /\ result[p].balance = entry_user(p).crystals + 50
         /\ result[p].at <= now

\* C10 witness: the second grant of a user, reporting 100.
C10_Witness ==
  \E p \in Procs :
    /\ Done(p, "daily") /\ result[p].kind = "Granted"
    /\ result[p].balance = 100
    /\ entry_user(p).crystals = 50

\* the raid the caller named, as the tables held it when the command began
entry_raid(p) ==
  IF \E r \in entry[p].raids : r.id = args[p].rid
  THEN CHOOSE r \in entry[p].raids : r.id = args[p].rid
  ELSE NoRaid

\* the number of participants of that raid when the command began
entry_count(p) == Cardinality({rp \in entry[p].parts : rp.raid_id = args[p].rid})

\* C11: a join of a raid id that does not exist returns NotFound and leaves
\* the tables as they were: no participant row, no user row for the caller.
C11_NotFoundNoChange ==
  \A p \in Procs :
    (Done(p, "join") /\ entry_raid(p) = NoRaid)
      => /\ result[p].kind = "NotFound"
         /\ users = entry[p].users
         /\ raids = entry[p].raids
         /\ parts = entry[p].parts

\* C11 witness: a caller without a user row has been told NotFound.
C11_Witness ==
  \E p \in Procs :
    /\ Done(p, "join") /\ result[p].kind = "NotFound"
    /\ get_user_by_tg(args[p].tg) = NoUser

\* C12: a join of a raid whose participant count equals its capacity
\* returns Full and adds no row; a join of a raid below capacity by a caller
\* who is not a participant adds exactly one row, for that raid and that
\* user, and returns Joined.
C12_FullOrJoined ==
  \A p \in Procs :
    (Done(p, "join") /\ entry_raid(p) # NoRaid) =>
      /\ entry_count(p) = entry_raid(p).slots
           => result[p].kind = "Full" /\ parts = entry[p].parts
      /\ (entry_count(p) < entry_raid(p).slots /\ ~ entry_joined(p))
           => /\ result[p].kind = "Joined"
              /\ entry[p].parts \subseteq parts
              /\ Cardinality(parts \ entry[p].parts) = 1
              /\ \A rp \in parts \ entry[p].parts :
                   /\ rp.raid_id = args[p].rid
                   /\ rp.user_id = get_user_by_tg(args[p].tg).id

\* C12 witness: a join has filled the last slot of a raid.
C12_Witness ==
  \E p \in Procs :
    /\ Done(p, "join") /\ result[p].kind = "Joined"
    /\ entry_count(p) + 1 = entry_raid(p).slots
    /\ count_participants(args[p].rid) = entry_raid(p).slots

\* C13: create_raid with an empty boss name or a capacity <= 0 returns a
\* ValidationError and creates nothing, so every stored raid has a boss name
\* and a capacity of at least 1.
C13_RaidsValidated ==
  /\ \A p \in Procs :
       (Done(p, "create_raid") /\ (args[p].boss = "" \/ args[p].slots <= 0))
         => result[p].kind = "ValidationError" /\ raids = entry[p].raids
  /\ \A r \in raids : r.boss # "" /\ r.slots >= 1

\* C19: creating a raid adds no participant row (its creator holds no
\* slot), and with joins run one at a time a join by a user who is not yet a
\* participant returns Joined while fewer than K have joined and Full after.
C19_FirstKThenFull ==
  \A p \in Procs :
    /\ (Done(p, "create_raid") /\ result[p].kind = "Created")
         => parts = entry[p].parts /\ count_participants(result[p].rid) = 0
    /\ (Done(p, "join") /\ entry_raid(p) # NoRaid /\ ~ entry_joined(p))
         => result[p].kind = IF entry_count(p) < entry_raid(p).slots
                             THEN "Joined" ELSE "Full"

\* C19 witness: a user who is not a participant is told Full by a raid
\* whose one or more slots were all taken by earlier joins.
C19_Witness ==
  \E p \in Procs :
    /\ Done(p, "join") /\ result[p].kind = "Full"
    /\ ~ entry_joined(p)
    /\ entry_raid(p).slots >= 1
    /\ entry_count(p) = entry_raid(p).slots

\* C14: export_raids called by anyone but the owner returns the refusal and
\* no report, whether or not an owner id is configured.
C14_NonOwnerRefused ==
  \A p \in Procs :
    (Done(p, "export_raids") /\ args[p].tg # owner)
      => result[p].kind = "Refused" /\ result[p].lines = <<>>

\* the tables only grow: rows stay, and a raid row or a participant row
\* stays as it is
Grows ==
  /\ \A u \in users : \E v \in users' : v.id = u.id /\ v.tg_id = u.tg_id
  /\ raids \subseteq raids'
  /\ parts \subseteq parts'

\* C20: no step of start, linkuid, daily, create_raid, join or export_raids
\* deletes a user, a raid or a participant row, or changes the boss, start
\* time, capacity or creator of a raid or any field of a participant row.
C20_StoreOnlyGrows == [][Grows]_vars

\* C20 witness: a raid has been created and joined and a linkuid has
\* rewritten the row of a user it found, so every table has been written to
\* and a row has been updated in place.
C20_Witness ==
  /\ raids # {} /\ parts # {}
  /\ \E p \in Procs :
       /\ Done(p, "linkuid") /\ result[p].kind = "Linked"
       /\ entry_user(p) # NoUser
       /\ get_user_by_tg(args[p].tg).uid = args[p].uid

\* C18: there is at most one user row per tg_id in every reachable state,
\* also when one unseen account has two of start, daily, create_raid, join
\* and linkuid running at the same time.
C18_OneUserPerTgId ==
  \A u \in users, v \in users : u.tg_id = v.tg_id => u = v

\* C18 witness: two commands of one account both found no user row and
\* went on to insert one; the second insert was turned down.
C18_Witness ==
  \E p \in Procs, q \in Procs :
    /\ p # q
    /\ args[p].tg = args[q].tg
    /\ entry_user(p) = NoUser /\ entry_user(q) = NoUser
    /\ pc[p] = "done" /\ result[p].kind = "Exception"
    /\ pc[q] # "idle" /\ loc[q].user # NoUser /\ loc[q].user.tg_id = args[p].tg

\* the start of a raid on the scheduler's clock
start_of(rid) == to_aware(get_raid(rid).start_time).t

\* C15: no threshold of a raid fires on a tick at or after its start time;
\* a burst only ever happens inside its own window, so a window that went
\* by unused is not made up for later; a raid whose start time was already
\* past when it was stored never has a burst.
C15_NothingAfterStart ==
  /\ \A b \in sent :
       /\ b.at < start_of(b.raid)
       /\ start_of(b.raid) - b.t * Minute <= b.at
       /\ b.at < start_of(b.raid) - b.t * Minute + poll
  /\ \A r \in raids, th \in Thresholds :
       start_of(r.id) = PastStart => bursts(r.id, th) = {} /\ <<r.id, th>> \notin fired

\* C15 witness: a tick was evaluated at or after the start of a raid that
\* was still ahead when the scheduler began, with one of its thresholds
\* never fired, while the raid stored with a past start time has none fired.
C15_Witness ==
  /\ \E r \in raids, th \in Thresholds :
       /\ start_of(r.id) > 0
       /\ lastTick >= start_of(r.id)
       /\ <<r.id, th>> \notin fired
  /\ \E r \in raids : start_of(r.id) = PastStart

\* every recipient of the burst has been tried and every try failed
all_failed(b) ==
  /\ undelivered(b) = {}
  /\ \A a \in attempts : (a.raid = b.raid /\ a.t = b.t) => ~ a.ok

\* C16: a pair is Fired before any delivery of its burst is attempted, and a
\* burst whose deliveries all failed leaves the pair Fired, with that one
\* burst only, whatever ticks follow.
C16_FiredBeforeDelivery ==
  /\ \A a \in attempts : <<a.raid, a.t>> \in fired
  /\ \A b \in sent :
       all_failed(b) => /\ <<b.raid, b.t>> \in fired
                        /\ Cardinality(bursts(b.raid, b.t)) = 1

\* C16 witness: every delivery of a burst failed before a later tick was
\* evaluated inside the same window.
C16_Witness ==
  \E b \in sent :
    /\ all_failed(b)
    /\ b.to # {}
    /\ lastTick > b.at
    /\ in_window(start_of(b.raid) - lastTick, b.t, poll)

\* C17: a failure raised while a command is handled leaves the loop
\* running, is answered with the generic failure text, and no command
\* update behind the offset has been left undispatched.
C17_FailureAnswered ==
  /\ loop \in {"fetch", "batch", "dispatch", "sleep"}
  /\ \A i \in 1 .. Len(dispatched) :
       dispatched[i].outcome = "raised"
         => \E j \in 1 .. Len(replies) :
              replies[j].id = dispatched[i].id /\ replies[j].kind = "failure"
  /\ \A i \in 1 .. Len(inbox) :
       (inbox[i].kind \in Commands /\ inbox[i].id < offset)
         => \E j \in 1 .. Len(dispatched) : dispatched[j].id = inbox[i].id

granting(tg) == {p \in Procs : pc[p] = "daily_return" /\ args[p].tg = tg}

\* C22: under any interleaving of daily calls, the crystals of every user
\* are non-negative and are 50 times the number of the user's daily calls
\* that returned the reward (those just about to return it counted in).
C22_BalanceCountsGrants ==
  \A u \in users :
    /\ u.crystals >= 0
    /\ u.crystals = DailyReward * (grants[u.tg_id] + Cardinality(granting(u.tg_id)))

\* a statement of a running command of the given kind is executed
moves(p, cmd) == args[p].cmd = cmd /\ pc'[p] # pc[p]

\* what a step of linkuid may do: nothing to raids and participants, nothing
\* to other users' rows, and to the caller's row only a new uid, or the
\* insert of that row with the uid, no crystals and no claim time
linkuid_frame(p) ==
  /\ raids' = raids /\ parts' = parts
  /\ \A u \in users :
       \E v \in users' :
         /\ v.id = u.id
         /\ v.tg_id = u.tg_id /\ v.nick = u.nick
         /\ v.crystals = u.crystals /\ v.last_daily = u.last_daily
         /\ v.uid # u.uid => u.tg_id = args[p].tg /\ v.uid = args[p].uid
  /\ \A v \in users' :
       (~ \E u \in users : u.id = v.id)
         => /\ v.tg_id = args[p].tg /\ v.uid = args[p].uid
            /\ v.crystals = 0 /\ v.last_daily = NoneDT

\* what a step of daily or join leaves alone: every user's uid
uid_kept ==
  /\ \A u \in users : \E v \in users' : v.id = u.id /\ v.uid = u.uid
  /\ \A v \in users' : (~ \E u \in users : u.id = v.id) => v.uid = "None"

\* C23: linkuid changes nothing but the caller's uid (inserting the row when
\* there is none) and leaves crystals and last_daily as they are; daily and
\* join change no user's uid; both also when the commands of one account
\* interleave.
C23_LinkUidFrame ==
  [][\A p \in Procs :
       /\ moves(p, "linkuid") => linkuid_frame(p)
       /\ (moves(p, "daily") \/ moves(p, "join")) => uid_kept]_vars

\* C23 witness: a linkuid and a daily of one account ran interleaved (each
\* began before the other had written) and the row has both the uid and the
\* reward.
C23_Witness ==
  \E p \in Procs, q \in Procs :
    /\ Done(p, "linkuid") /\ result[p].kind = "Linked"
    /\ Done(q, "daily") /\ result[q].kind = "Granted"
    /\ args[p].tg = args[q].tg
    /\ entry_user(p) # NoUser /\ entry_user(p).crystals = 0
    /\ entry_user(q) # NoUser /\ entry_user(q).uid = "None"
    /\ get_user_by_tg(args[p].tg).uid = args[p].uid
    /\ get_user_by_tg(args[p].tg).crystals = DailyReward

\* C24: no update is dispatched twice, and the offset the loop will send to
\* getUpdates is greater than the update_id of every update dispatched so
\* far, whatever fetches, handler failures and request errors have happened.
C24_DispatchedOnce ==
  /\ \A i \in 1 .. Len(dispatched) : dispatched[i].id < offset
  /\ \A i \in 1 .. Len(dispatched), j \in 1 .. Len(dispatched) :
       dispatched[i].id = dispatched[j].id => i = j

\* C24 witness: after a command whose handler raised, another command has
\* been dispatched and the loop is back at getUpdates with updates pending
\* from the offset on.
C24_Witness ==
  /\ Len(dispatched) >= 2
  /\ dispatched[1].outcome = "raised"
  /\ dispatched[Len(dispatched)].outcome = "returned"
  /\ loop = "fetch"
  /\ pending(offset) # <<>>

====
